---- MODULE Spec2Model ----
(***************************************************************************)
(* pcl::RGBPlaneCoefficientComparator                                      *)
(* (segmentation/include/pcl/segmentation/rgb_plane_coefficient_comparator.h) *)
(*                                                                         *)
(* Number representation.  The class computes with float and double; the   *)
(* model computes with integers that stand for the following quantities:   *)
(*   positions, distances, distance_threshold_   units of 10^-4            *)
(*   colour channels, colour distance, color_threshold_   units of 1       *)
(*   normal components   units of 1/4 (their products: units of 1/16)      *)
(*   dot products, angular_threshold_ (a cosine)   units of 2^-26          *)
(*   angles in radians   units of 2^-27                                    *)
(* The angle and cosine units are float grids: every angle of AngleArgs    *)
(* and every value of cosf and acosf below is the exact float the C        *)
(* library produces, so that float rounding in cosf/acosf is part of the   *)
(* model.                                                                  *)
(***************************************************************************)
EXTENDS Integers, Sequences, FiniteSets, TLC

\* ------------------------------------------------------------- bounds
\* Number of points of the organized cloud (and of the normal cloud).
NumPoints == 3

\* ------------------------------------------------------------- units
PosScale == 10^4
CosOne == 2^26
DotToCos == 2^22
\* The float nearest to pi, 3.14159274, in angle units.
PiF == 13176795 * 32
\* The largest argument of sqrt the model meets stays below SqrtMax^2.
SqrtMax == 2^15

\* ------------------------------------------------------------- constructor values
\* angular_threshold_ (0), distance_threshold_ (0.02), color_threshold_ (50.0)
DefaultAngular == 0
DefaultDistance == 200
DefaultColor == 50

Null == <<>>

\* ------------------------------------------------------------- inputs
\* The organized cloud, owned by the caller: PointT with x, y, z (float) and
\* r, g, b (unsigned char).  C++ index k is element k + 1 of the sequence.
PointOf(k) ==
  CASE k = 0 -> [x |-> 0, y |-> 0, z |-> 0, r |-> 100, g |-> 100, b |-> 100]
    [] k = 1 -> [x |-> 0, y |-> 0, z |-> 100, r |-> 105, g |-> 100, b |-> 100]
    [] k = 2 -> [x |-> 0, y |-> 0, z |-> 0, r |-> 100, g |-> 100, b |-> 100]
    [] k = 3 -> [x |-> 1500, y |-> 2000, z |-> 0, r |-> 100, g |-> 100, b |-> 110]
    [] k = 4 -> [x |-> 0, y |-> 0, z |-> 3, r |-> 100, g |-> 100, b |-> 100]
    [] OTHER -> [x |-> 100 * k, y |-> 0, z |-> 0, r |-> 100, g |-> 100, b |-> 100]

InputClouds == { [k \in 1..NumPoints |-> PointOf(k - 1)] }

\* Normal clouds handed to setInputNormals: all normals (0,0,1), and a cloud
\* of differing directions, one of them, (0, 0.5, 0.75), not of unit length.
NormalOfA(k) == [nx |-> 0, ny |-> 0, nz |-> 4]

NormalOfB(k) ==
  CASE k = 0 -> [nx |-> 0, ny |-> 0, nz |-> 4]
    [] k = 1 -> [nx |-> 0, ny |-> 2, nz |-> 3]
    [] k = 2 -> [nx |-> 0, ny |-> 4, nz |-> 0]
    [] k = 3 -> [nx |-> 0, ny |-> 0, nz |-> -4]
    [] OTHER -> [nx |-> 4, ny |-> 0, nz |-> 0]

NormalClouds ==
  { [k \in 1..NumPoints |-> NormalOfA(k - 1)],
    [k \in 1..NumPoints |-> NormalOfB(k - 1)] }

\* The vector of d-coefficients handed to setPlaneCoeffD (units of 10^-4).
PlaneCoeffVectors == { [k \in 1..NumPoints |-> 2500 * k] }

\* Arguments of setAngularThreshold: 0, 2^-12, 0.1f, 1, the float pi, 4.
AngleArgs == {0, 2^15, 13421773, 2^27, PiF, 2^29}

\* Arguments of setDistanceThreshold: 0, 0.02, -0.02, 0.5.
DistanceArgs == {0, 200, -200, 5000}

\* Arguments of setColorThreshold: 0, 5, 50.
ColorArgs == {0, 5, 50}

\* Arguments of the setters called between two rounds of concurrent compare
\* calls: 1 radian, 0.02.
ConcAngleArgs == {2^27}
ConcDistanceArgs == {200}
\* The normal clouds installed there: the cloud of differing directions.
ConcNormalClouds == {normals \in NormalClouds : normals[1] # normals[2]}

\* Indices passed to compare: those of the cloud (the caller's precondition).
Indices == 0..(NumPoints - 1)

At(cloud, idx) == cloud[idx + 1]

\* ------------------------------------------------------------- arithmetic
\* cosf on the arguments of AngleArgs: the float result, in units of 2^-26.
cosf(a) ==
  CASE a = 0 -> CosOne               \* cosf(0)            = 1
    [] a = 2^15 -> CosOne            \* cosf(0.000244140625) = 1 (rounded)
    [] a = 13421773 -> 66773600      \* cosf(0.1f)         = 0.995004177
    [] a = 2^27 -> 36259072          \* cosf(1)            = 0.540302277
    [] a = PiF -> -CosOne            \* cosf(3.14159274)   = -1
    [] a = 2^29 -> -43865280         \* cosf(4)            = -0.653643608

\* acosf on the values angular_threshold_ takes: the float result, in units
\* of 2^-27.
acosf(c) ==
  CASE c = CosOne -> 0               \* acosf(1)            = 0
    [] c = 66773600 -> 13421757      \* acosf(0.995004177)  = 0.0999998823
    [] c = 36259072 -> 2^27          \* acosf(0.540302277)  = 1
    [] c = 0 -> 210828720            \* acosf(0)            = 1.57079637
    [] c = -43865280 -> 306443936    \* acosf(-0.653643608) = 2.28318524
    [] c = -CosOne -> PiF            \* acosf(-1)           = 3.14159274

\* float * float for two values in units of 10^-4, the product in the same unit.
FMul(a, b) == (a * b) \div PosScale

\* sqrt of a sum of squares (units of 10^-8), the root in units of 10^-4,
\* rounded down; found by bisection below a power of two above the root.
RECURSIVE SqrtSearch(_, _, _)
SqrtSearch(n, lo, hi) ==
  IF lo = hi THEN lo
  ELSE LET mid == (lo + hi + 1) \div 2
       IN IF mid * mid <= n THEN SqrtSearch(n, mid, hi)
          ELSE SqrtSearch(n, lo, mid - 1)

sqrt(n) ==
  IF n = 0 THEN 0
  ELSE IF n < 2^16 THEN SqrtSearch(n, 1, 2^8)
  ELSE SqrtSearch(n, 2^8, SqrtMax)

\* ------------------------------------------------------------- state
VARIABLES
  input_,                \* Comparator::input_, the point cloud
  normals_,              \* PlaneCoefficientComparator::normals_, or Null
  plane_coeff_d_,        \* PlaneCoefficientComparator::plane_coeff_d_, or Null
  angular_threshold_,
  distance_threshold_,
  color_threshold_,
  call,                  \* the last member function called: [op, args, ret]
  alive,                 \* the process runs (FALSE once it was killed by SIGSEGV)
  t_pc,                  \* per thread: where it is inside compare
  t_idx1, t_idx2,        \* per thread: compare's arguments
  t_dist,                \* per thread: the local dist
  t_color_dist,          \* per thread: the local color_dist
  t_ret                  \* per thread: the value compare returned

config == <<input_, normals_, plane_coeff_d_,
            angular_threshold_, distance_threshold_, color_threshold_>>
threads == <<t_pc, t_idx1, t_idx2, t_dist, t_color_dist, t_ret>>
vars == <<config, call, alive, threads>>

Threads == {"t1", "t2"}


\* ------------------------------------------------------------- compare
\* The object compare is called on.
this ==
  [input_ |-> input_, normals_ |-> normals_, plane_coeff_d_ |-> plane_coeff_d_,
   angular_threshold_ |-> angular_threshold_,
   distance_threshold_ |-> distance_threshold_,
   color_threshold_ |-> color_threshold_]

\* double dx, dy, dz; double dist = sqrt (dx*dx + dy*dy + dz*dz);
dist(self, idx1, idx2) ==
  LET dx == At(self.input_, idx1).x - At(self.input_, idx2).x
      dy == At(self.input_, idx1).y - At(self.input_, idx2).y
      dz == At(self.input_, idx1).z - At(self.input_, idx2).z
  IN sqrt(dx * dx + dy * dy + dz * dz)

\* int dr, dg, db; float color_dist = static_cast<float> (dr*dr + dg*dg + db*db);
color_dist(self, idx1, idx2) ==
  LET dr == At(self.input_, idx1).r - At(self.input_, idx2).r
      dg == At(self.input_, idx1).g - At(self.input_, idx2).g
      db == At(self.input_, idx1).b - At(self.input_, idx2).b
  IN dr * dr + dg * dg + db * db

\* The dot product with the components of the second normal rotated.
dot_Mixed(self, idx1, idx2) ==
  LET n1 == At(self.normals_, idx1)
      n2 == At(self.normals_, idx2)
  IN (n1.nx * n2.ny + n1.ny * n2.nz + n1.nz * n2.nx) * DotToCos

\* normals_->points[idx1].getNormalVector3fMap ().dot (
\*   normals_->points[idx2].getNormalVector3fMap ())
dot(self, idx1, idx2) ==
  LET n1 == At(self.normals_, idx1)
      n2 == At(self.normals_, idx2)
  IN (n1.nx * n2.nx + n1.ny * n2.ny + n1.nz * n2.nz) * DotToCos

\* The return expression of compare on the locals dist and color_dist; && is
\* evaluated left to right and stops at the first false operand.
ReturnValue(self, d, cd, idx1, idx2) ==
  /\ d < self.distance_threshold_
  /\ dot(self, idx1, idx2) > self.angular_threshold_
  /\ cd < self.color_threshold_

\* compare with the squared distance tested against the stored threshold.
compare_SquaredDistance(self, idx1, idx2) ==
  LET dx == At(self.input_, idx1).x - At(self.input_, idx2).x
      dy == At(self.input_, idx1).y - At(self.input_, idx2).y
      dz == At(self.input_, idx1).z - At(self.input_, idx2).z
  IN ReturnValue(self, FMul(dx, dx) + FMul(dy, dy) + FMul(dz, dz),
                 color_dist(self, idx1, idx2), idx1, idx2)

\* compare with the coordinate differences summed unsquared.
compare_SignedDistance(self, idx1, idx2) ==
  LET dx == At(self.input_, idx1).x - At(self.input_, idx2).x
      dy == At(self.input_, idx1).y - At(self.input_, idx2).y
      dz == At(self.input_, idx1).z - At(self.input_, idx2).z
  IN ReturnValue(self, dx + dy + dz, color_dist(self, idx1, idx2), idx1, idx2)

\* compare with the test of the dot product turned round.
compare_DotBelow(self, idx1, idx2) ==
  /\ dist(self, idx1, idx2) < self.distance_threshold_
  /\ dot(self, idx1, idx2) < self.angular_threshold_
  /\ color_dist(self, idx1, idx2) < self.color_threshold_

\* compare testing the difference of the planes' d-coefficients, where they
\* are set, in place of the distance of the points.
compare_PlaneCoeff(self, idx1, idx2) ==
  LET dd == At(self.plane_coeff_d_, idx1) - At(self.plane_coeff_d_, idx2)
      d == IF self.plane_coeff_d_ = Null THEN dist(self, idx1, idx2)
           ELSE IF dd < 0 THEN -dd ELSE dd
  IN ReturnValue(self, d, color_dist(self, idx1, idx2), idx1, idx2)

compare(self, idx1, idx2) ==
  ReturnValue(self, dist(self, idx1, idx2), color_dist(self, idx1, idx2),
              idx1, idx2)

\* compare dereferences input_ first, and normals_ only when the distance
\* test has passed: with the pointer unset that dereference is undefined
\* behaviour.
Defined(self, idx1, idx2) ==
  /\ self.input_ # Null
  /\ \/ self.normals_ # Null
     \/ ~(dist(self, idx1, idx2) < self.distance_threshold_)

\* ------------------------------------------------------------- getters
getInputNormals == normals_
getAngularThreshold == acosf(angular_threshold_)
getDistanceThreshold == distance_threshold_
getColorThreshold == color_threshold_

\* ------------------------------------------------------------- construction
Called(op, args, ret) == [op |-> op, args |-> args, ret |-> ret]

ThreadsIdle ==
  /\ t_pc = [t \in Threads |-> "idle"]
  /\ t_idx1 = [t \in Threads |-> 0]
  /\ t_idx2 = [t \in Threads |-> 0]
  /\ t_dist = [t \in Threads |-> 0]
  /\ t_color_dist = [t \in Threads |-> 0]
  /\ t_ret = [t \in Threads |-> FALSE]

\* Both constructors: neither is given a cloud, and the one-argument
\* constructor does not store its argument.
Constructed ==
  /\ input_ = Null
  /\ normals_ = Null
  /\ plane_coeff_d_ = Null
  /\ angular_threshold_ = DefaultAngular
  /\ distance_threshold_ = DefaultDistance
  /\ color_threshold_ = DefaultColor

Init ==
  /\ Constructed
  /\ \/ call = Called("RGBPlaneCoefficientComparator", <<>>, "void")
     \/ \E v \in PlaneCoeffVectors :
          call = Called("RGBPlaneCoefficientComparator", <<v>>, "void")
  /\ alive = TRUE
  /\ ThreadsIdle

\* ------------------------------------------------------------- member functions
\* Comparator<PointT>::setInputCloud (const PointCloudConstPtr& cloud), the
\* inherited member function that installs the point cloud.
SetInputCloud(cloud) ==
  /\ alive
  /\ input_' = cloud
  /\ call' = Called("setInputCloud", <<cloud>>, "void")
  /\ UNCHANGED <<normals_, plane_coeff_d_, angular_threshold_,
                 distance_threshold_, color_threshold_, alive, threads>>

SetInputNormals(normals) ==
  /\ alive
  /\ normals_' = normals
  /\ call' = Called("setInputNormals", <<normals>>, "void")
  /\ UNCHANGED <<input_, plane_coeff_d_, angular_threshold_,
                 distance_threshold_, color_threshold_, alive, threads>>

GetInputNormals ==
  /\ alive
  /\ call' = Called("getInputNormals", <<>>, getInputNormals)
  /\ UNCHANGED <<config, alive, threads>>

\* setPlaneCoeffD (boost::shared_ptr<std::vector<float> >&)
SetPlaneCoeffDPtr(plane_coeff_d) ==
  /\ alive
  /\ plane_coeff_d_' = plane_coeff_d
  /\ call' = Called("setPlaneCoeffD(shared_ptr)", <<plane_coeff_d>>, "void")
  /\ UNCHANGED <<input_, normals_, angular_threshold_,
                 distance_threshold_, color_threshold_, alive, threads>>

\* setPlaneCoeffD (std::vector<float>&): stores a copy
SetPlaneCoeffDVec(plane_coeff_d) ==
  /\ alive
  /\ plane_coeff_d_' = plane_coeff_d
  /\ call' = Called("setPlaneCoeffD(vector)", <<plane_coeff_d>>, "void")
  /\ UNCHANGED <<input_, normals_, angular_threshold_,
                 distance_threshold_, color_threshold_, alive, threads>>

SetAngularThreshold(angular_threshold) ==
  /\ alive
  /\ angular_threshold_' = cosf(angular_threshold)
  /\ call' = Called("setAngularThreshold", <<angular_threshold>>, "void")
  /\ UNCHANGED <<input_, normals_, plane_coeff_d_,
                 distance_threshold_, color_threshold_, alive, threads>>

GetAngularThreshold ==
  /\ alive
  /\ call' = Called("getAngularThreshold", <<>>, getAngularThreshold)
  /\ UNCHANGED <<config, alive, threads>>

\* setDistanceThreshold storing its argument unsquared.
SetDistanceThreshold_Raw(distance_threshold) ==
  /\ alive
  /\ distance_threshold_' = distance_threshold
  /\ call' = Called("setDistanceThreshold", <<distance_threshold>>, "void")
  /\ UNCHANGED <<input_, normals_, plane_coeff_d_,
                 angular_threshold_, color_threshold_, alive, threads>>

SetDistanceThreshold(distance_threshold) ==
  /\ alive
  /\ distance_threshold_' = FMul(distance_threshold, distance_threshold)
  /\ call' = Called("setDistanceThreshold", <<distance_threshold>>, "void")
  /\ UNCHANGED <<input_, normals_, plane_coeff_d_,
                 angular_threshold_, color_threshold_, alive, threads>>

GetDistanceThreshold ==
  /\ alive
  /\ call' = Called("getDistanceThreshold", <<>>, getDistanceThreshold)
  /\ UNCHANGED <<config, alive, threads>>

SetColorThreshold(color_threshold) ==
  /\ alive
  /\ color_threshold_' = color_threshold * color_threshold
  /\ call' = Called("setColorThreshold", <<color_threshold>>, "void")
  /\ UNCHANGED <<input_, normals_, plane_coeff_d_,
                 angular_threshold_, distance_threshold_, alive, threads>>

GetColorThreshold ==
  /\ alive
  /\ call' = Called("getColorThreshold", <<>>, getColorThreshold)
  /\ UNCHANGED <<config, alive, threads>>

\* compare squaring the stored distance threshold in place on each call.
Compare_SquaringThreshold(idx1, idx2) ==
  /\ alive
  /\ call' = Called("compare", <<idx1, idx2>>,
                    IF Defined(this, idx1, idx2)
                    THEN compare(this, idx1, idx2) ELSE FALSE)
  /\ distance_threshold_' = FMul(distance_threshold_, distance_threshold_)
  /\ UNCHANGED <<input_, normals_, plane_coeff_d_,
                 angular_threshold_, color_threshold_, alive, threads>>

\* compare (int idx1, int idx2) const.  Where the call is undefined behaviour
\* (an unset pointer is dereferenced) the process is killed by SIGSEGV, or the
\* call returns either value.
Compare(idx1, idx2) ==
  /\ alive
  /\ \/ /\ Defined(this, idx1, idx2)
        /\ UNCHANGED alive
        /\ call' = Called("compare", <<idx1, idx2>>, compare(this, idx1, idx2))
     \/ /\ ~Defined(this, idx1, idx2)
        /\ \/ /\ alive' = FALSE
              /\ call' = Called("compare", <<idx1, idx2>>, "SIGSEGV")
           \/ /\ UNCHANGED alive
              /\ \E ret \in BOOLEAN :
                   call' = Called("compare", <<idx1, idx2>>, ret)
  /\ UNCHANGED <<config, threads>>

Next ==
  \/ \E cloud \in InputClouds : SetInputCloud(cloud)
  \/ \E normals \in NormalClouds : SetInputNormals(normals)
  \/ GetInputNormals
  \/ \E v \in PlaneCoeffVectors : SetPlaneCoeffDPtr(v)
  \/ \E v \in PlaneCoeffVectors : SetPlaneCoeffDVec(v)
  \/ \E a \in AngleArgs : SetAngularThreshold(a)
  \/ GetAngularThreshold
  \/ \E d \in DistanceArgs : SetDistanceThreshold(d)
  \/ GetDistanceThreshold
  \/ \E c \in ColorArgs : SetColorThreshold(c)
  \/ GetColorThreshold
  \/ \E idx1 \in Indices, idx2 \in Indices : Compare(idx1, idx2)

Spec == Init /\ [][Next]_vars


\* ------------------------------------------------------------- concurrent callers
\* Several threads call compare on the one comparator.  compare has no
\* synchronization; a thread runs it statement by statement, its locals its
\* own.  The setters run only while no compare is in flight (the caller's
\* obligation: a setter concurrent with compare is a data race).
NoCompareInFlight == \A t \in Threads : t_pc[t] = "idle"

TCall(t, idx1, idx2) ==
  /\ alive
  /\ t_pc[t] = "idle"
  /\ t_pc' = [t_pc EXCEPT ![t] = "L185"]
  /\ t_idx1' = [t_idx1 EXCEPT ![t] = idx1]
  /\ t_idx2' = [t_idx2 EXCEPT ![t] = idx2]
  /\ UNCHANGED <<config, call, alive, t_dist, t_color_dist, t_ret>>

\* A thread dereferences an unset pointer: the process is killed by SIGSEGV,
\* or the call returns either value.
TUndefined(t) ==
  \/ /\ alive' = FALSE
     /\ UNCHANGED <<config, call, threads>>
  \/ /\ \E ret \in BOOLEAN : t_ret' = [t_ret EXCEPT ![t] = ret]
     /\ t_pc' = [t_pc EXCEPT ![t] = "done"]
     /\ UNCHANGED <<config, call, alive, t_idx1, t_idx2, t_dist, t_color_dist>>

\* dist kept in storage the threads share (a static local, a member).
TDist_Shared(t) ==
  /\ alive
  /\ t_pc[t] = "L185"
  /\ \/ /\ input_ # Null
        /\ t_dist' = [u \in Threads |-> dist(this, t_idx1[t], t_idx2[t])]
        /\ t_pc' = [t_pc EXCEPT ![t] = "L189"]
        /\ UNCHANGED <<config, call, alive, t_idx1, t_idx2, t_color_dist, t_ret>>
     \/ /\ input_ = Null
        /\ TUndefined(t)

\* lines 185-188: dx, dy, dz, dist; input_-> is the first dereference
TDist(t) ==
  /\ alive
  /\ t_pc[t] = "L185"
  /\ \/ /\ input_ # Null
        /\ t_dist' = [t_dist EXCEPT ![t] = dist(this, t_idx1[t], t_idx2[t])]
        /\ t_pc' = [t_pc EXCEPT ![t] = "L189"]
        /\ UNCHANGED <<config, call, alive, t_idx1, t_idx2, t_color_dist, t_ret>>
     \/ /\ input_ = Null
        /\ TUndefined(t)

\* lines 189-193: dr, dg, db, color_dist
TColorDist(t) ==
  /\ alive
  /\ t_pc[t] = "L189"
  /\ t_color_dist' = [t_color_dist EXCEPT ![t] = color_dist(this, t_idx1[t], t_idx2[t])]
  /\ t_pc' = [t_pc EXCEPT ![t] = "L194"]
  /\ UNCHANGED <<config, call, alive, t_idx1, t_idx2, t_dist, t_ret>>

\* lines 194-196: the return statement; normals_-> is evaluated when the
\* distance test has passed
TReturn(t) ==
  /\ alive
  /\ t_pc[t] = "L194"
  /\ \/ /\ normals_ # Null \/ ~(t_dist[t] < distance_threshold_)
        /\ t_ret' = [t_ret EXCEPT ![t] =
                       ReturnValue(this, t_dist[t], t_color_dist[t], t_idx1[t], t_idx2[t])]
        /\ t_pc' = [t_pc EXCEPT ![t] = "done"]
        /\ UNCHANGED <<config, call, alive, t_idx1, t_idx2, t_dist, t_color_dist>>
     \/ /\ normals_ = Null /\ t_dist[t] < distance_threshold_
        /\ TUndefined(t)

\* The caller takes the result; the frame of the call is gone.
TResume(t) ==
  /\ alive
  /\ t_pc[t] = "done"
  /\ t_pc' = [t_pc EXCEPT ![t] = "idle"]
  /\ t_idx1' = [t_idx1 EXCEPT ![t] = 0]
  /\ t_idx2' = [t_idx2 EXCEPT ![t] = 0]
  /\ t_dist' = [t_dist EXCEPT ![t] = 0]
  /\ t_color_dist' = [t_color_dist EXCEPT ![t] = 0]
  /\ t_ret' = [t_ret EXCEPT ![t] = FALSE]
  /\ UNCHANGED <<config, call, alive>>

Reconfigure ==
  /\ NoCompareInFlight
  /\ \/ \E cloud \in InputClouds : SetInputCloud(cloud)
     \/ \E normals \in ConcNormalClouds : SetInputNormals(normals)
     \/ \E a \in ConcAngleArgs : SetAngularThreshold(a)
     \/ \E d \in ConcDistanceArgs : SetDistanceThreshold(d)

ConcNext ==
  \/ \E t \in Threads, idx1 \in Indices, idx2 \in Indices : TCall(t, idx1, idx2)
  \/ \E t \in Threads : TDist(t)
  \/ \E t \in Threads : TColorDist(t)
  \/ \E t \in Threads : TReturn(t)
  \/ \E t \in Threads : TResume(t)
  \/ Reconfigure

ConcSpec == Init /\ [][ConcNext]_vars


\* ------------------------------------------------------------- properties
\* Both clouds are installed: every in-bounds call of compare is defined.
CloudsSet == input_ # Null /\ normals_ # Null

\* The thresholds as the constructors leave them: no threshold setter has been
\* called (no setter stores 0, 0.02 or 50).
DefaultThresholds ==
  /\ angular_threshold_ = DefaultAngular
  /\ distance_threshold_ = DefaultDistance
  /\ color_threshold_ = DefaultColor

\* Every threshold has been stored by its setter.
ConfiguredBySetters ==
  /\ \E a \in AngleArgs : angular_threshold_ = cosf(a)
  /\ \E d \in DistanceArgs : distance_threshold_ = FMul(d, d)
  /\ \E c \in ColorArgs : color_threshold_ = c * c

\* Every threshold has been stored by its setter from a non-negative argument.
ConfiguredNonNegative ==
  /\ \E a \in AngleArgs : a >= 0 /\ angular_threshold_ = cosf(a)
  /\ \E d \in DistanceArgs : d >= 0 /\ distance_threshold_ = FMul(d, d)
  /\ \E c \in ColorArgs : c >= 0 /\ color_threshold_ = c * c

\* The three conditions, stated on the exact quantities: the Euclidean
\* distance is below T exactly when T is positive and the squared distance is
\* below T squared.
SquaredDistance(i, j) ==
  (At(input_, i).x - At(input_, j).x) * (At(input_, i).x - At(input_, j).x)
  + (At(input_, i).y - At(input_, j).y) * (At(input_, i).y - At(input_, j).y)
  + (At(input_, i).z - At(input_, j).z) * (At(input_, i).z - At(input_, j).z)

DistanceBelowStored(i, j) ==
  /\ distance_threshold_ > 0
  /\ SquaredDistance(i, j) < distance_threshold_ * distance_threshold_

DotAboveStored(i, j) ==
  (At(normals_, i).nx * At(normals_, j).nx
   + At(normals_, i).ny * At(normals_, j).ny
   + At(normals_, i).nz * At(normals_, j).nz) * DotToCos > angular_threshold_

ColorBelowStored(i, j) ==
  (At(input_, i).r - At(input_, j).r) * (At(input_, i).r - At(input_, j).r)
  + (At(input_, i).g - At(input_, j).g) * (At(input_, i).g - At(input_, j).g)
  + (At(input_, i).b - At(input_, j).b) * (At(input_, i).b - At(input_, j).b)
  < color_threshold_

AllThree(i, j) ==
  DistanceBelowStored(i, j) /\ DotAboveStored(i, j) /\ ColorBelowStored(i, j)

\* Cells i and j have the same position and colour and the same normal, a
\* vector whose dot product with itself is 1.
IdenticalCells(i, j) ==
  /\ At(input_, i) = At(input_, j)
  /\ At(normals_, i) = At(normals_, j)
  /\ At(normals_, i).nx * At(normals_, i).nx
     + At(normals_, i).ny * At(normals_, i).ny
     + At(normals_, i).nz * At(normals_, i).nz = 16

ComparedLast == call.op = "compare" /\ CloudsSet

\* C1: in every reachable configuration and for all in-bounds i, j, compare
\* (i, j) is true exactly when the (non-squared) Euclidean distance is below
\* the stored distance threshold, the dot product of the normals is above the
\* stored cosine, and the sum of squared colour differences is below the
\* stored colour threshold; and that is what a call of compare returns.
C1_CompareIffAllThree ==
  CloudsSet =>
    /\ \A i \in Indices, j \in Indices : compare(this, i, j) <=> AllThree(i, j)
    /\ call.op = "compare" => (call.ret <=> AllThree(call.args[1], call.args[2]))

\* compare has returned true and has returned it for thresholds the setters
\* stored, on two different cells.
C1_Witness ==
  /\ ComparedLast
  /\ ConfiguredBySetters
  /\ call.args[1] # call.args[2]
  /\ At(input_, call.args[1]) # At(input_, call.args[2])
  /\ call.ret = TRUE

\* C2 (as claimed): right after construction the stored thresholds are the
\* transformed defaults, cos(0), 0.02^2 and 50^2, the state the three setters
\* would leave when called with 0, 0.02 and 50.
C2_ConstructedTransformed ==
  call.op = "RGBPlaneCoefficientComparator" =>
    /\ angular_threshold_ = cosf(DefaultAngular)
    /\ distance_threshold_ = FMul(DefaultDistance, DefaultDistance)
    /\ color_threshold_ = DefaultColor * DefaultColor

\* C3 (as claimed): on identical cells compare returns true for any
\* non-negative thresholds configured through the setters.
C3_IdenticalAcceptedNonNegative ==
  (/\ ComparedLast
   /\ IdenticalCells(call.args[1], call.args[2])
   /\ ConfiguredNonNegative)
  => call.ret = TRUE

\* C3 (amended): on identical cells compare returns true for any thresholds
\* configured through the setters whose stored distance and colour thresholds
\* are above 0 and whose stored cosine is below 1.
C3_IdenticalAcceptedPositive ==
  (/\ ComparedLast
   /\ IdenticalCells(call.args[1], call.args[2])
   /\ ConfiguredBySetters
   /\ distance_threshold_ > 0
   /\ color_threshold_ > 0
   /\ angular_threshold_ < CosOne)
  => call.ret = TRUE

C3_Witness ==
  /\ ComparedLast
  /\ call.args[1] # call.args[2]
  /\ IdenticalCells(call.args[1], call.args[2])
  /\ ConfiguredBySetters
  /\ distance_threshold_ > 0
  /\ color_threshold_ > 0
  /\ angular_threshold_ < CosOne
  /\ call.ret = TRUE

\* C4 (as claimed): on a default-constructed comparator, compare on the cells
\* at (0,0,0) and (0,0,0.01) with normals (0,0,1) and colours (100,100,100)
\* and (105,100,100) returns false.
C4_DefaultScenarioRejected ==
  (/\ ComparedLast
   /\ DefaultThresholds
   /\ At(input_, call.args[1]) =
        [x |-> 0, y |-> 0, z |-> 0, r |-> 100, g |-> 100, b |-> 100]
   /\ At(input_, call.args[2]) =
        [x |-> 0, y |-> 0, z |-> 100, r |-> 105, g |-> 100, b |-> 100]
   /\ At(normals_, call.args[1]) = [nx |-> 0, ny |-> 0, nz |-> 4]
   /\ At(normals_, call.args[2]) = [nx |-> 0, ny |-> 0, nz |-> 4])
  => call.ret = FALSE

\* C5: compare (i, j) = compare (j, i) in every configuration, for all
\* in-bounds i, j.
C5_Symmetric ==
  CloudsSet =>
    /\ \A i \in Indices, j \in Indices : compare(this, i, j) <=> compare(this, j, i)
    /\ call.op = "compare" => (call.ret <=> compare(this, call.args[2], call.args[1]))

\* compare has accepted two cells that differ in position and colour.
C5_Witness ==
  /\ ComparedLast
  /\ At(input_, call.args[1]).z # At(input_, call.args[2]).z
  /\ At(input_, call.args[1]).r # At(input_, call.args[2]).r
  /\ At(normals_, call.args[1]) # At(normals_, call.args[2])
  /\ call.ret = TRUE

\* C6: with the clouds and the other two thresholds fixed, for angles
\* a1 <= a2 in [0, pi], every pair compare accepts after setAngularThreshold
\* (a1) it accepts after setAngularThreshold (a2).
C6_AngularMonotone ==
  (/\ CloudsSet
   /\ call.op = "setAngularThreshold"
   /\ 0 <= call.args[1] /\ call.args[1] <= PiF)
  => \A a1 \in AngleArgs :
       (0 <= a1 /\ a1 <= call.args[1])
       => \A i \in Indices, j \in Indices :
            compare([this EXCEPT !.angular_threshold_ = cosf(a1)], i, j)
            => compare(this, i, j)

\* setAngularThreshold (1 rad) has just run and compare accepts a pair of
\* cells whose normals are not parallel, which it rejects for 0.1 rad.
C6_Witness ==
  /\ CloudsSet
  /\ call.op = "setAngularThreshold"
  /\ call.args[1] = 2^27
  /\ \E i \in Indices, j \in Indices :
       /\ compare(this, i, j)
       /\ ~compare([this EXCEPT !.angular_threshold_ = cosf(13421773)], i, j)

\* C7: a call of compare changes neither the thresholds nor normals_,
\* plane_coeff_d_, the point cloud or the normal cloud, so that the same call
\* made again returns the same value.
C7_CompareChangesNothing ==
  [][\A idx1 \in Indices, idx2 \in Indices :
       (/\ call'.op = "compare"
        /\ call'.args = <<idx1, idx2>>
        /\ Compare(idx1, idx2))
       => /\ UNCHANGED config
          /\ Defined(this, idx1, idx2)
               => (compare(this', idx1, idx2) <=> call'.ret)]_vars

\* compare has run on a comparator all of whose fields the setters have set.
C7_Witness ==
  /\ ComparedLast
  /\ ConfiguredBySetters
  /\ plane_coeff_d_ # Null
  /\ call.ret = TRUE

\* C8: while no setter runs, every compare call of every thread whose
\* behaviour is defined (the pointers it dereferences are set) returns what
\* compare returns on that configuration when run alone.
C8_ConcurrentCompare ==
  \A t \in Threads :
    (t_pc[t] = "done" /\ Defined(this, t_idx1[t], t_idx2[t]))
    => (t_ret[t] <=> compare(this, t_idx1[t], t_idx2[t]))

\* One thread has returned true while another is inside compare, past its
\* distance computation, on another pair.
C8_Witness ==
  \E t \in Threads, u \in Threads :
    /\ t # u
    /\ CloudsSet
    /\ t_pc[t] = "done" /\ t_ret[t] = TRUE
    /\ t_pc[u] \in {"L189", "L194"}
    /\ <<t_idx1[t], t_idx2[t]>> # <<t_idx1[u], t_idx2[u]>>
    /\ t_dist[t] # t_dist[u]

\* C9: the vector passed to setPlaneCoeffD (or to the one-argument
\* constructor) does not influence compare: states that differ only in
\* plane_coeff_d_ give the same compare (i, j) for all i, j.
C9_PlaneCoeffIgnored ==
  CloudsSet =>
    \A v \in PlaneCoeffVectors \cup {Null} :
      \A i \in Indices, j \in Indices :
        compare([this EXCEPT !.plane_coeff_d_ = v], i, j) <=> compare(this, i, j)

\* setPlaneCoeffD has stored a vector whose entries differ and compare accepts
\* a pair of different cells.
C9_Witness ==
  /\ CloudsSet
  /\ call.op \in {"setPlaneCoeffD(shared_ptr)", "setPlaneCoeffD(vector)"}
  /\ plane_coeff_d_ # Null
  /\ \E i \in Indices, j \in Indices :
       /\ At(plane_coeff_d_, i) # At(plane_coeff_d_, j)
       /\ At(input_, i) # At(input_, j)
       /\ compare(this, i, j)

\* What the setters of the distance and colour thresholds do, and what every
\* setter leaves alone.
SettersSquareAndFrame ==
  /\ \A d \in DistanceArgs :
       SetDistanceThreshold(d) =>
         /\ getDistanceThreshold' = FMul(d, d)
         /\ UNCHANGED <<angular_threshold_, color_threshold_>>
  /\ \A c \in ColorArgs :
       SetColorThreshold(c) =>
         /\ getColorThreshold' = c * c
         /\ UNCHANGED <<angular_threshold_, distance_threshold_>>
  /\ \A a \in AngleArgs :
       SetAngularThreshold(a) =>
         UNCHANGED <<distance_threshold_, color_threshold_>>

\* C10 (as claimed): getDistanceThreshold returns d*d after
\* setDistanceThreshold (d), getColorThreshold returns c*c after
\* setColorThreshold (c), getAngularThreshold returns a after
\* setAngularThreshold (a) for a in [0, pi], and each setter leaves the other
\* two thresholds unchanged.
C10_GettersExact ==
  [][/\ SettersSquareAndFrame
     /\ \A a \in AngleArgs :
          (0 <= a /\ a <= PiF /\ SetAngularThreshold(a))
          => getAngularThreshold' = a]_vars

\* 2^-12 rad, in angle units.
AngleTolerance == 2^15

\* C10 (amended): as claimed, except that getAngularThreshold after
\* setAngularThreshold (a), a in [0, pi], returns acosf (cosf (a)), which is
\* within 2^-12 rad of a and need not be a.
C10_GettersUpToRounding ==
  [][/\ SettersSquareAndFrame
     /\ \A a \in AngleArgs :
          (0 <= a /\ a <= PiF /\ SetAngularThreshold(a))
          => /\ getAngularThreshold' = acosf(cosf(a))
             /\ getAngularThreshold' - a <= AngleTolerance
             /\ a - getAngularThreshold' <= AngleTolerance]_vars

\* getAngularThreshold has returned 0.0999998823 for the stored cosf (0.1f),
\* and the distance and colour thresholds hold squares.
C10_Witness ==
  /\ call.op = "getAngularThreshold"
  /\ angular_threshold_ = cosf(13421773)
  /\ call.ret = 13421757
  /\ distance_threshold_ = FMul(5000, 5000)
  /\ color_threshold_ = 5 * 5

====
